---- MODULE Spec2Model ----
(***************************************************************************)
(* Model of server/migrate-to-supabase.js: the SQLite to Supabase          *)
(* migration script.  One process runs main(): it asks the operator for a  *)
(* confirmation, then runs the six migrate* routines in sequence, each of  *)
(* which reads a whole source table and writes its rows one at a time to   *)
(* the destination, awaiting every write.                                  *)
(***************************************************************************)
EXTENDS Integers, Sequences, FiniteSets, TLC

(* ---------------------------- bounds ----------------------------------- *)
MaxTotalRows == 3   \* rows of the whole source database
MaxFaults == 1      \* faults (write errors, failed reads) the environment injects
MaxRuns == 2        \* invocations of the script
MaxLen == 3         \* characters of a JSON text

(* ---------------------------- tables ----------------------------------- *)
\* Faulty variant of Tables: fests migrated before events.
TablesSwapped ==
  <<"users", "fests", "events", "registrations", "attendance_status", "qr_scan_logs">>
\* main() lines 429-434: the order in which the migrate* routines are called.
Tables ==
  <<"users", "events", "fests", "registrations", "attendance_status", "qr_scan_logs">>

NumTables == Len(Tables)
TableIds == 1..NumTables
TableNames == { Tables[i] : i \in TableIds }

\* Faulty variants of OnConflict: every write a plain insert; every write an
\* upsert on an identifier column.
OnConflictNone(t) == ""
OnConflictAll(t) ==
  CASE t = "users" -> "email"
    [] t = "events" -> "event_id"
    [] t = "fests" -> "fest_id"
    [] OTHER -> "registration_id"
\* The { onConflict: ... } option of each upsert; "" for a plain insert.
OnConflict(t) ==
  CASE t = "users" -> "email"
    [] t = "events" -> "event_id"
    [] t = "fests" -> "fest_id"
    [] t = "registrations" -> "registration_id"
    [] OTHER -> ""

\* The column each routine prints in its per-row console line.
LabelCol(t) ==
  CASE t = "users" -> "email"
    [] t = "events" -> "title"
    [] t = "fests" -> "fest_title"
    [] t = "registrations" -> "registration_id"
    [] t = "attendance_status" -> "registration_id"
    [] OTHER -> "scan_result"

\* The columns each routine passes through JSON.parse.
JsonCols(t) ==
  CASE t = "events" -> {"department_access", "rules", "schedule", "prizes"}
    [] t = "fests" -> {"department_access", "event_heads"}
    [] t = "registrations" -> {"teammates", "qr_code_data"}
    [] t = "qr_scan_logs" -> {"scanner_info"}
    [] OTHER -> {}

(* ------------------------- JSON text columns --------------------------- *)
\* A source column value: SQL NULL or a text, a text being a tuple of characters.
JNull == [kind |-> "null", chars |-> <<>>]
JText(s) == [kind |-> "text", chars |-> s]

\* Decoded values.
DNull == [kind |-> "null"]
DNum(n) == [kind |-> "num", v |-> n]
DArr(a) == [kind |-> "arr", v |-> a]
SyntaxError == [kind |-> "SyntaxError"]

Alphabet == {"[", "]", "1", ","}

RECURSIVE ParseDigits(_, _, _)
\* the digits of a number starting at position i, acc the value read so far
ParseDigits(s, i, acc) ==
  IF i <= Len(s) /\ s[i] = "1"
    THEN ParseDigits(s, i + 1, 10 * acc + 1)
    ELSE [ok |-> TRUE, val |-> DNum(acc), next |-> i]

RECURSIVE ParseValue(_, _)
RECURSIVE ParseElems(_, _, _)
\* the elements of an array after "[" or ",", acc the elements read so far
ParseElems(s, i, acc) ==
  LET e == ParseValue(s, i) IN
  IF ~e.ok THEN [ok |-> FALSE]
  ELSE IF e.next > Len(s) THEN [ok |-> FALSE]
  ELSE IF s[e.next] = "," THEN ParseElems(s, e.next + 1, Append(acc, e.val))
  ELSE IF s[e.next] = "]"
    THEN [ok |-> TRUE, val |-> DArr(Append(acc, e.val)), next |-> e.next + 1]
  ELSE [ok |-> FALSE]

ParseValue(s, i) ==
  IF i > Len(s) THEN [ok |-> FALSE]
  ELSE IF s[i] = "1" THEN ParseDigits(s, i, 0)
  ELSE IF s[i] = "["
    THEN IF i + 1 <= Len(s) /\ s[i + 1] = "]"
           THEN [ok |-> TRUE, val |-> DArr(<<>>), next |-> i + 2]
           ELSE ParseElems(s, i + 1, <<>>)
  ELSE [ok |-> FALSE]

\* JSON.parse over the texts of Alphabet: numbers and (nested) arrays.
JSONparse(s) ==
  LET r == ParseValue(s, 1) IN
  IF r.ok /\ r.next = Len(s) + 1 THEN r.val ELSE SyntaxError

\* JavaScript truthiness of a column value: null and '' are falsy.
Truthy(j) == j.kind = "text" /\ j.chars # <<>>

\* Faulty variant of Decode: only NULL skips the parse.
DecodeAlways(j) == IF j.kind = "null" THEN DNull ELSE JSONparse(j.chars)
\* `x ? JSON.parse(x) : null`
Decode(j) == IF Truthy(j) THEN JSONparse(j.chars) ELSE DNull

\* `x === 1`
IsOne(n) == n = 1

(* --------------------------- row mapping ------------------------------- *)
\* The object literal each routine passes to upsert/insert.
Payload(t, row) ==
  CASE t = "users" ->
         [email |-> row.email, is_organiser |-> IsOne(row.is_organiser)]
    [] t = "events" ->
         [event_id |-> row.event_id, title |-> row.title,
          department_access |-> Decode(row.department_access),
          claims_applicable |-> IsOne(row.claims_applicable),
          rules |-> Decode(row.rules),
          schedule |-> Decode(row.schedule),
          prizes |-> Decode(row.prizes)]
    [] t = "fests" ->
         [fest_id |-> row.fest_id, fest_title |-> row.fest_title,
          department_access |-> Decode(row.department_access),
          event_heads |-> Decode(row.event_heads)]
    [] t = "registrations" ->
         [registration_id |-> row.registration_id,
          teammates |-> Decode(row.teammates),
          qr_code_data |-> Decode(row.qr_code_data)]
    [] t = "attendance_status" ->
         [registration_id |-> row.registration_id, status |-> row.status]
    [] OTHER ->
         [registration_id |-> row.registration_id,
          scan_result |-> row.scan_result,
          scanner_info |-> Decode(row.scanner_info)]

\* Building the object literal throws when one of its JSON.parse calls throws.
Throws(t, row) == \E c \in JsonCols(t) : Payload(t, row)[c] = SyntaxError

(* --------------------------- input domains ----------------------------- *)
Good == <<"[", "1", "]">>
Bad == <<"[">>

\* 0/1 integer column of a row, fixed by its key
Flag(k) == IF k = "k1" THEN 1 ELSE 0

\* A source row of table t with natural key k and JSON columns js.
MkRow(t, k, js) ==
  CASE t = "users" -> [email |-> k, is_organiser |-> Flag(k)]
    [] t = "events" ->
         [event_id |-> k, title |-> "Tech Talk",
          department_access |-> js["department_access"],
          claims_applicable |-> Flag(k),
          rules |-> js["rules"], schedule |-> js["schedule"],
          prizes |-> js["prizes"]]
    [] t = "fests" ->
         [fest_id |-> k, fest_title |-> "Spring Fest",
          department_access |-> js["department_access"],
          event_heads |-> js["event_heads"]]
    [] t = "registrations" ->
         [registration_id |-> k, teammates |-> js["teammates"],
          qr_code_data |-> js["qr_code_data"]]
    [] t = "attendance_status" -> [registration_id |-> k, status |-> "attended"]
    [] OTHER ->
         [registration_id |-> k, scan_result |-> "valid",
          scanner_info |-> js["scanner_info"]]

\* Assignments of the JSON columns of t: column c drawn from J, the others from Rest.
JsFocus(t, c, J, Rest) ==
  { [d \in JsonCols(t) |-> IF d = c THEN j ELSE r[d]] :
      j \in J, r \in [JsonCols(t) -> Rest] }

FocusCol(t) ==
  CASE t = "events" -> "rules"
    [] t = "fests" -> "event_heads"
    [] t = "registrations" -> "teammates"
    [] OTHER -> "scanner_info"

\* Rows of the orchestration specifications: a row of key k1 whose JSON column
\* is NULL or good, a row of key k2 whose JSON column is good or bad.
RowDomain(t) ==
  { MkRow(t, "k1", js) : js \in JsFocus(t, FocusCol(t), {JNull, JText(Good)}, {JNull}) }
  \cup
  { MkRow(t, "k2", js) : js \in JsFocus(t, FocusCol(t), {JText(Good), JText(Bad)}, {JNull}) }

SeqsUpTo(S, n) == UNION { [1..k -> S] : k \in 0..n }

Min(a, b) == IF a < b THEN a ELSE b

RECURSIVE Databases(_, _)
\* the contents of the i-th to the last table, of at most rem rows in total
Databases(i, rem) ==
  IF i > NumTables THEN { <<>> }
  ELSE UNION { { <<rows>> \o rest : rest \in Databases(i + 1, rem - Len(rows)) } :
                 rows \in SeqsUpTo(RowDomain(Tables[i]), rem) }

\* JSON texts of the mapping specification: every text of at most MaxLen characters.
JsonTexts == { JText(s) : s \in SeqsUpTo(Alphabet, MaxLen) }

\* Rows of the mapping specification: one column any text or NULL, the others
\* NULL or a good text; every JSON column of the table takes the role in turn.
WideRows(t) ==
  UNION { { MkRow(t, "k1", js) :
              js \in JsFocus(t, c, JsonTexts \cup {JNull}, {JNull, JText(Good)}) } :
          c \in JsonCols(t) }

\* The database whose tables hold the rows of the tuple p, in the order of Tables.
Database(p) == [t \in TableNames |-> p[CHOOSE i \in TableIds : Tables[i] = t]]

\* A database holding the single row r in table t.
SingleRow(t, r) == [u \in TableNames |-> IF u = t THEN <<r>> ELSE <<>>]

\* Lines the operator may type at the confirmation prompt, as tuples of characters.
Declined == { <<"n", "o">>, <<>>, <<"y", "e">>, <<"y", "e", "s", " ">>, <<"N">>,
              <<"n">>, <<" ", "y">>, <<"y", "e", "s", "s">>, <<"y", "y">> }
Answers ==
  { <<a>> : a \in {"y", "Y"} }
  \cup { <<a, b, c>> : a \in {"y", "Y"}, b \in {"e", "E"}, c \in {"s", "S"} }
  \cup Declined

ErrorMessages == {"duplicate key value", "fetch failed"}

(* ------------------------------ state ---------------------------------- *)
VARIABLES
  run,       \* number of this invocation of the script
  pc,        \* position of main(): "prompt", "read", "row", "await", "verify",
             \* "closed" (after db.close()) or "exited" (process.exit(0))
  tbl,       \* position in Tables of the routine being run
  idx,       \* index of the row of the for loop
  stdin,     \* the line the operator types at the prompt
  answer,    \* the answer main() has read, empty before the prompt
  source,    \* the SQLite database: for each table its rows, in SELECT order
  dest,      \* the Supabase database: for each table its rows
  inflight,  \* destination requests issued and not yet answered
  log,       \* console lines of this invocation
  trace,     \* destination writes issued by this invocation, in order
  outcomes,  \* outcomes of the destination writes of this invocation, in order
  started,   \* routines entered by this invocation, in order
  thrown,    \* the error caught by main()'s catch block, "none" if none
  budget,    \* faults the environment may still inject
  counts,    \* the three counts of the verification step
  hist       \* summary of each previous invocation

vars == <<run, pc, tbl, idx, stdin, answer, source, dest, inflight, log, trace,
          outcomes, started, thrown, budget, counts, hist>>

NoRows == [t \in TableNames |-> <<>>]

InitWith(db, b, line) ==
  /\ run = 1
  /\ stdin = line
  /\ pc = "prompt"
  /\ tbl = 1
  /\ idx = 1
  /\ answer = <<>>
  /\ source = db
  /\ dest = NoRows
  /\ inflight = {}
  /\ log = <<>>
  /\ trace = <<>>
  /\ outcomes = <<>>
  /\ started = <<>>
  /\ thrown = "none"
  /\ budget = b
  /\ counts = <<>>
  /\ hist = <<>>

\* One invocation over any small database, the environment injecting faults;
\* the operator confirms with "y" or declines.
Init ==
  \E p \in Databases(1, MaxTotalRows) : \E line \in {<<"y">>, <<"n", "o">>} :
    InitWith(Database(p), MaxFaults, line)

\* Confirmed invocations over any small database with every read and write
\* succeeding.
InitTwice ==
  \E p \in Databases(1, MaxTotalRows) : InitWith(Database(p), 0, <<"y", "e", "s">>)

\* One invocation over a database of at most one row, the operator typing any line.
InitGate ==
  \E p \in Databases(1, Min(1, MaxTotalRows)) : \E line \in Answers :
    InitWith(Database(p), MaxFaults, line)

\* One invocation over a database of one row with any JSON text.
InitMap ==
  \E t \in TableNames : \E r \in WideRows(t) :
    InitWith(SingleRow(t, r), 0, <<"Y">>)

(* ----------------------------- helpers --------------------------------- *)
\* `answer.toLowerCase()`
LowerChar(c) ==
  CASE c = "Y" -> "y"
    [] c = "E" -> "e"
    [] c = "S" -> "s"
    [] c = "N" -> "n"
    [] c = "O" -> "o"
    [] OTHER -> c
toLowerCase(a) == [k \in 1..Len(a) |-> LowerChar(a[k])]

\* Faulty variant of Confirmed: any answer that starts with y or Y.
ConfirmedByFirstLetter(a) == Len(a) > 0 /\ LowerChar(a[1]) = "y"
\* main() line 420: the answers that let the migration start.
Confirmed(a) == toLowerCase(a) = <<"y", "e", "s">> \/ toLowerCase(a) = <<"y">>

\* Faulty variant of IsEmpty: the early return is never taken.
IsEmptyNever(rows) == FALSE
\* `rows.length === 0`
IsEmpty(rows) == Len(rows) = 0

\* Where main() goes once routine i has returned.
Advance(i) ==
  IF i < NumTables THEN [pc |-> "read", tbl |-> i + 1, idx |-> 1]
                   ELSE [pc |-> "verify", tbl |-> i, idx |-> 1]

\* The for loop of routine i at row k: the body, or the return after the last row.
LoopFrom(i, k) ==
  IF k <= Len(source[Tables[i]]) THEN [pc |-> "row", tbl |-> i, idx |-> k] ELSE Advance(i)

\* An exception leaves the routine and the try block: catch, then db.close().
Caught(i, k) == [pc |-> "closed", tbl |-> i, idx |-> k]

\* Faulty variant of AfterOutcome: a write error is thrown.
AfterOutcomeAbort(i, k, error) == IF error THEN Caught(i, k) ELSE LoopFrom(i, k + 1)
\* Where routine i goes after the outcome of the write of row k.
AfterOutcome(i, k, error) == LoopFrom(i, k + 1)

\* Faulty variant of AfterReadThrow: the error is swallowed by the routine.
AfterReadThrowSkip(i) == Advance(i)
\* Where control goes when the SELECT of routine i throws.
AfterReadThrow(i) == Caught(i, 1)

Line(kind, t, k, label, msg) ==
  [kind |-> kind, table |-> t, row |-> k, label |-> label, msg |-> msg]

\* upsert(rec, { onConflict: col }) on the rows of a destination table
Upsert(rows, rec, col) ==
  IF \E j \in 1..Len(rows) : rows[j][col] = rec[col]
    THEN [j \in 1..Len(rows) |-> IF rows[j][col] = rec[col] THEN rec ELSE rows[j]]
    ELSE Append(rows, rec)

\* The effect of a successful write request on the rows of its table.
Written(rows, req) ==
  IF req.onConflict = "" THEN Append(rows, req.payload)
                         ELSE Upsert(rows, req.payload, req.onConflict)

(* ------------------------------ actions -------------------------------- *)
\* main() up to the confirmation: the operator answers the prompt.
Prompt ==
  /\ pc = "prompt"
  /\ answer' = stdin
  /\ IF Confirmed(answer') THEN pc' = "read" ELSE pc' = "exited"
  /\ UNCHANGED <<run, stdin, tbl, idx, source, dest, inflight, log, trace, outcomes,
                 started, thrown, budget, counts, hist>>

\* Routine i from its entry to the first await: the SELECT, the empty check,
\* the entry of the for loop.
ReadRows(i) ==
  /\ pc = "read"
  /\ tbl = i
  /\ started' = Append(started, Tables[i])
  /\ \/ /\ budget > 0
        /\ budget' = budget - 1
        /\ thrown' = "read failed"
        /\ log' = Append(log, Line("failed", Tables[i], 0, "", "read failed"))
        /\ pc' = AfterReadThrow(i).pc
        /\ tbl' = AfterReadThrow(i).tbl
        /\ idx' = AfterReadThrow(i).idx
     \/ /\ LET rows == source[Tables[i]]
               to == IF IsEmpty(rows) THEN Advance(i) ELSE LoopFrom(i, 1) IN
            /\ log' = IF IsEmpty(rows)
                        THEN Append(log, Line("empty", Tables[i], 0, "", ""))
                        ELSE log
            /\ pc' = to.pc
            /\ tbl' = to.tbl
            /\ idx' = to.idx
        /\ UNCHANGED <<thrown, budget>>
  /\ UNCHANGED <<run, stdin, answer, source, dest, inflight, trace, outcomes, counts, hist>>

\* The body of the for loop up to its await: the object literal is built and
\* the write request is issued, or JSON.parse throws.
SendRow(i) ==
  /\ pc = "row"
  /\ tbl = i
  /\ LET t == Tables[i]
         row == source[t][idx] IN
       IF Throws(t, row)
         THEN /\ thrown' = "SyntaxError"
              /\ log' = Append(log, Line("failed", t, idx, "", "SyntaxError"))
              /\ pc' = Caught(i, idx).pc
              /\ UNCHANGED <<inflight, trace>>
         ELSE /\ inflight' = inflight \cup
                   { [table |-> t, row |-> idx, onConflict |-> OnConflict(t),
                      payload |-> Payload(t, row)] }
              /\ trace' = Append(trace, [table |-> t, row |-> idx])
              /\ pc' = "await"
              /\ UNCHANGED <<thrown, log>>
  /\ UNCHANGED <<run, tbl, idx, stdin, answer, source, dest, outcomes, started, budget,
                 counts, hist>>

\* The rest of the body: the outcome of the write arrives and is printed.
Receive(i) ==
  /\ pc = "await"
  /\ tbl = i
  /\ \E req \in inflight : \E res \in {"ok"} \cup ErrorMessages :
       LET t == Tables[i]
           error == res # "ok"
           label == source[t][req.row][LabelCol(t)]
           to == AfterOutcome(i, idx, error) IN
       /\ req.table = t
       /\ error => budget > 0
       /\ budget' = IF error THEN budget - 1 ELSE budget
       /\ inflight' = inflight \ {req}
       /\ dest' = IF error THEN dest
                  ELSE [dest EXCEPT ![t] = Written(dest[t], req)]
       /\ outcomes' = Append(outcomes, [table |-> t, row |-> req.row, res |-> res])
       /\ log' = Append(log, Line(IF error THEN "error" ELSE "ok", t, req.row,
                                  label, IF error THEN res ELSE ""))
       /\ pc' = to.pc
       /\ tbl' = to.tbl
       /\ idx' = to.idx
  /\ UNCHANGED <<run, stdin, answer, source, trace, started, thrown, counts, hist>>

migrateUsers == ReadRows(1) \/ SendRow(1) \/ Receive(1)
migrateEvents == ReadRows(2) \/ SendRow(2) \/ Receive(2)
migrateFests == ReadRows(3) \/ SendRow(3) \/ Receive(3)
migrateRegistrations == ReadRows(4) \/ SendRow(4) \/ Receive(4)
migrateAttendance == ReadRows(5) \/ SendRow(5) \/ Receive(5)
migrateQRScanLogs == ReadRows(6) \/ SendRow(6) \/ Receive(6)

\* main() after the last routine: the success banner, the three count
\* queries, db.close().
Verify ==
  /\ pc = "verify"
  /\ log' = Append(log, Line("completed", "", 0, "", ""))
  /\ counts' = <<Len(dest["users"]), Len(dest["events"]), Len(dest["registrations"])>>
  /\ pc' = "closed"
  /\ UNCHANGED <<run, tbl, idx, stdin, answer, source, dest, inflight, trace, outcomes,
                 started, thrown, budget, hist>>

main == Prompt \/ Verify

\* The operator runs the script again over the same source database.
Rerun ==
  /\ pc \in {"closed", "exited"}
  /\ run < MaxRuns
  /\ hist' = Append(hist, [pc |-> pc, dest |-> dest, trace |-> trace,
                           outcomes |-> outcomes, thrown |-> thrown])
  /\ run' = run + 1
  /\ pc' = "prompt"
  /\ tbl' = 1
  /\ idx' = 1
  /\ answer' = <<>>
  /\ inflight' = {}
  /\ log' = <<>>
  /\ trace' = <<>>
  /\ outcomes' = <<>>
  /\ started' = <<>>
  /\ thrown' = "none"
  /\ counts' = <<>>
  /\ UNCHANGED <<stdin, source, dest, budget>>

Next ==
  \/ main
  \/ migrateUsers
  \/ migrateEvents
  \/ migrateFests
  \/ migrateRegistrations
  \/ migrateAttendance
  \/ migrateQRScanLogs

NextTwice == Next \/ Rerun

Spec == Init /\ [][Next]_vars
SpecTwice == InitTwice /\ [][NextTwice]_vars
SpecGate == InitGate /\ [][Next]_vars
SpecMap == InitMap /\ [][Next]_vars

(* --------------------- vocabulary of the properties -------------------- *)
\* The order of the migration stated by the specification.
ExpectedOrder ==
  <<"users", "events", "fests", "registrations", "attendance_status", "qr_scan_logs">>

\* the place of table t in that order
Pos(t) ==
  CASE t = "users" -> 1
    [] t = "events" -> 2
    [] t = "fests" -> 3
    [] t = "registrations" -> 4
    [] t = "attendance_status" -> 5
    [] t = "qr_scan_logs" -> 6

Range(f) == { f[i] : i \in DOMAIN f }

Last(f) == f[Len(f)]

KeyedTables == {"users", "events", "fests", "registrations"}
AppendTables == {"attendance_status", "qr_scan_logs"}

\* The natural key of the keyed tables.
NaturalKey(t) ==
  CASE t = "users" -> "email"
    [] t = "events" -> "event_id"
    [] t = "fests" -> "fest_id"
    [] OTHER -> "registration_id"

\* Row k of source table t has a row of the same identifier in the destination.
Present(t, k) ==
  \E j \in 1..Len(dest[t]) : dest[t][j][NaturalKey(t)] = source[t][k][NaturalKey(t)]

\* The write attempts of a run with no thrown error.
RowsOf(t) == [k \in 1..Len(source[t]) |-> [table |-> t, row |-> k]]
ExpectedWrites ==
  RowsOf("users") \o RowsOf("events") \o RowsOf("fests") \o RowsOf("registrations")
    \o RowsOf("attendance_status") \o RowsOf("qr_scan_logs")

\* The run has gone on past row k of table t: the body of the loop has been
\* entered for row k + 1 or, when k is the last row, main() has gone on to the
\* table after t (to the verification after the last table).
WentOn(t, k) ==
  IF k < Len(source[t])
    THEN \/ pc = "row" /\ Tables[tbl] = t /\ idx = k + 1
         \/ [table |-> t, row |-> k + 1] \in Range(trace)
         \/ thrown = "SyntaxError" /\ Tables[tbl] = t /\ idx = k + 1
  ELSE IF Pos(t) < Len(ExpectedOrder)
    THEN \/ pc = "read" /\ Tables[tbl] = ExpectedOrder[Pos(t) + 1]
         \/ ExpectedOrder[Pos(t) + 1] \in Range(started)
    ELSE pc \in {"verify", "closed"} /\ thrown = "none"

Errors(os) == { o \in Range(os) : o.res # "ok" }
ErrorLines == { l \in Range(log) : l.kind = "error" }

\* The lines that equal "yes" or "y" ignoring letter case.
YesLines ==
  { <<a>> : a \in {"y", "Y"} }
  \cup { <<a, b, c>> : a \in {"y", "Y"}, b \in {"e", "E"}, c \in {"s", "S"} }

(* ------------------------------- C1 ------------------------------------ *)
\* C1: a destination write that returns an error is reported as a failure of
\* that row and stops nothing: the rows written before stay in the destination,
\* the loop goes on to the next row and, after the last row, main() goes on to
\* the next table; the reported failures are exactly the writes that returned
\* an error, and a run in which nothing is thrown attempts every row.
C1_WriteFailureIsolated ==
  /\ { <<l.table, l.row>> : l \in ErrorLines } = { <<o.table, o.row>> : o \in Errors(outcomes) }
  /\ Cardinality(ErrorLines) = Cardinality(Errors(outcomes))
  /\ \A o \in Errors(outcomes) : WentOn(o.table, o.row)
  /\ \A o \in Range(outcomes) : o.res = "ok" => Present(o.table, o.row)
  /\ (pc \in {"verify", "closed"} /\ thrown = "none") =>
       \A t \in TableNames : \A k \in 1..Len(source[t]) :
         [table |-> t, row |-> k] \in Range(trace)

\* Of three rows with distinct payloads the write of the second failed, the
\* first and the third are in the destination, and a later table has been run.
C1_Witness ==
  \E t \in TableNames : \E u \in TableNames :
    /\ Pos(t) < Pos(u)
    /\ Len(source[t]) = 3
    /\ source[t][1][NaturalKey(t)] # source[t][3][NaturalKey(t)]
    /\ [table |-> t, row |-> 1, res |-> "ok"] \in Range(outcomes)
    /\ \E o \in Errors(outcomes) : o.table = t /\ o.row = 2
    /\ [table |-> t, row |-> 3, res |-> "ok"] \in Range(outcomes)
    /\ Len(dest[t]) = 2
    /\ u \in Range(started)
    /\ pc = "closed"

(* ------------------------------- C2 ------------------------------------ *)
AllOk(os) == \A o \in Range(os) : o.res = "ok"

\* the rows of table t a run wrote, given its trace
WrittenRows(t, tr) == { e.row : e \in { x \in Range(tr) : x.table = t } }

\* Both of the first two invocations ran to db.close() with every write succeeding.
RanTwice ==
  /\ run = 2
  /\ pc = "closed"
  /\ hist[1].pc = "closed"
  /\ AllOk(outcomes)
  /\ AllOk(hist[1].outcomes)

\* C2: after two runs over the same source with every write succeeding, each
\* keyed table holds the same rows as after the first run, one row per natural
\* key written, each with the field values of the last write for its key; when
\* the run threw nothing these are all the distinct natural keys of the source.
C2_KeyedIdempotent ==
  RanTwice =>
    \A t \in KeyedTables :
      LET nk == NaturalKey(t)
          W == WrittenRows(t, trace)
          LastOf(key) ==
            CHOOSE k \in W : /\ source[t][k][nk] = key
                             /\ \A m \in W : source[t][m][nk] = key => m <= k
      IN /\ dest[t] = hist[1].dest[t]
         /\ \A a, b \in 1..Len(dest[t]) : dest[t][a][nk] = dest[t][b][nk] => a = b
         /\ { dest[t][j][nk] : j \in 1..Len(dest[t]) } = { source[t][k][nk] : k \in W }
         /\ \A j \in 1..Len(dest[t]) :
              dest[t][j] = Payload(t, source[t][LastOf(dest[t][j][nk])])
         /\ thrown = "none" => W = 1..Len(source[t])

C2_Witness ==
  /\ RanTwice
  /\ thrown = "none"
  /\ \E t \in KeyedTables :
       /\ Len(source[t]) = 2
       /\ source[t][1][NaturalKey(t)] = source[t][2][NaturalKey(t)]
       /\ source[t][1] # source[t][2]
       /\ Len(dest[t]) = 1

(* ------------------------------- C3 ------------------------------------ *)
\* C3: a source table is read or a destination write issued only when the
\* operator's answer equals "yes" or "y" ignoring letter case; after any other
\* answer the process has exited with nothing read and nothing written.
C3_ConfirmationGate ==
  /\ (started # <<>> \/ trace # <<>> \/ inflight # {} \/ dest # NoRows
        \/ pc \in {"read", "row", "await", "verify", "closed"})
       => answer \in YesLines
  /\ (pc # "prompt" /\ answer \notin YesLines) =>
       /\ pc = "exited"
       /\ started = <<>>
       /\ trace = <<>>
       /\ inflight = {}
       /\ dest = NoRows

C3_Witness ==
  /\ pc = "exited"
  /\ answer = <<"y", "e", "s", " ">>
  /\ \E t \in TableNames : source[t] # <<>>

(* ------------------------------- C4 ------------------------------------ *)
\* C4 as stated: when the read of a source table has thrown, the migration of
\* every later table has still been run by the end of the run.
C4_LaterTablesStillRun ==
  (pc = "closed" /\ thrown = "read failed") =>
    \A t \in TableNames : Pos(t) > Pos(Last(started)) => t \in Range(started)

\* C4 as amended: a failed read of a source table is propagated to main(),
\* which reports it and ends the run: the tables before it have been migrated,
\* no later table is started, no further write is issued, the verification is
\* skipped, and the rows written before stay in the destination.
C4_ReadFailureEndsRun ==
  thrown = "read failed" =>
    /\ pc = "closed"
    /\ Last(log) = [kind |-> "failed", table |-> Last(started), row |-> 0,
                    label |-> "", msg |-> "read failed"]
    /\ started = SubSeq(ExpectedOrder, 1, Len(started))
    /\ inflight = {}
    /\ counts = <<>>
    /\ \A e \in Range(trace) : Pos(e.table) < Pos(Last(started))
    /\ \A o \in Range(outcomes) : o.res = "ok" => Present(o.table, o.row)

C4_Witness ==
  /\ thrown = "read failed"
  /\ pc = "closed"
  /\ dest # NoRows
  /\ \E t \in TableNames : Pos(t) > Pos(Last(started)) /\ source[t] # <<>>

(* ------------------------------- C5 ------------------------------------ *)
\* The column the script prints for a row of a keyed table.
ReportedCol(t) ==
  CASE t = "users" -> "email"
    [] t = "events" -> "title"
    [] t = "fests" -> "fest_title"
    [] OTHER -> "registration_id"

\* Every failed write of a keyed table has a failure line with the value of
\* column Col(t) of the failed row and the error message the write returned.
ReportedBy(Col(_)) ==
  \A o \in Errors(outcomes) :
    o.table \in KeyedTables =>
      \E n \in 1..Len(log) :
        /\ log[n].kind = "error"
        /\ log[n].table = o.table
        /\ log[n].row = o.row
        /\ log[n].label = source[o.table][o.row][Col(o.table)]
        /\ log[n].msg = o.res

\* C5: a failed write is reported with the natural key of the row (email,
\* event_id, fest_id, registration_id) and the error message.
C5_ReportedByNaturalKey == ReportedBy(NaturalKey)

\* What the script prints: the error message with the row's email for users,
\* title for events, fest_title for fests, registration_id for registrations.
PrintedLabels == ReportedBy(ReportedCol)

(* ------------------------------- C6 ------------------------------------ *)
\* C6: the writes issued are a prefix of the rows of users, events, fests,
\* registrations, attendance_status, qr_scan_logs, each table in source order,
\* and all of them once a run ends with nothing thrown; every write is issued
\* after the outcome of the previous one, so at most one request is in flight.
C6_SequentialWrites ==
  /\ LET expected == ExpectedWrites IN
       /\ Len(trace) <= Len(expected)
       /\ trace = SubSeq(expected, 1, Len(trace))
       /\ (pc = "closed" /\ thrown = "none") => trace = expected
  /\ Cardinality(inflight) <= 1
  /\ Len(trace) = Len(outcomes) + Cardinality(inflight)
  /\ \A n \in 1..Len(outcomes) :
       outcomes[n].table = trace[n].table /\ outcomes[n].row = trace[n].row
  /\ \A req \in inflight : req.table = Last(trace).table /\ req.row = Last(trace).row

C6_Witness ==
  /\ pc = "closed"
  /\ thrown = "none"
  /\ Len(trace) = 3
  /\ source["events"] # <<>>
  /\ source["fests"] # <<>>
  /\ Cardinality(Errors(outcomes)) = 1

(* ------------------------------- C7 ------------------------------------ *)
\* C7: after two runs over the same source with every write succeeding and an
\* initially empty destination, each append-only table holds the rows written
\* by a run twice over; when the runs threw nothing that is every source row
\* twice, twice the source row count.
C7_AppendTwice ==
  RanTwice =>
    \A t \in AppendTables :
      LET n == Cardinality(WrittenRows(t, trace))
          W == [k \in 1..n |-> Payload(t, source[t][k])]
      IN /\ WrittenRows(t, trace) = 1..n
         /\ dest[t] = W \o W
         /\ thrown = "none" => Len(dest[t]) = 2 * Len(source[t])

C7_Witness ==
  /\ RanTwice
  /\ thrown = "none"
  /\ Len(source["attendance_status"]) = 2
  /\ Len(dest["attendance_status"]) = 4
  /\ Len(dest["qr_scan_logs"]) = 2

(* ------------------------------- C8 ------------------------------------ *)
EmptyLine(t) == Line("empty", t, 0, "", "")

\* C8: for a source table with no rows no write is issued; once its routine
\* has read it, "nothing to migrate" is reported, and the routine returns so
\* that main() goes on to the next table (to the verification after the last).
C8_EmptyTableNoOp ==
  \A t \in TableNames :
    source[t] = <<>> =>
      /\ \A e \in Range(trace) : e.table # t
      /\ \A req \in inflight : req.table # t
      /\ dest[t] = <<>>
      /\ LET reported == \E n \in 1..Len(log) : log[n] = EmptyLine(t)
             entered == \E n \in 1..Len(started) : started[n] = t
         IN /\ (entered /\ ~(thrown = "read failed" /\ Last(started) = t)) => reported
            /\ reported => WentOn(t, 0)

C8_Witness ==
  \E t \in TableNames : \E u \in TableNames :
    /\ Pos(t) < Pos(u)
    /\ EmptyLine(t) \in Range(log)
    /\ [table |-> u, row |-> 1, res |-> "ok"] \in Range(outcomes)

(* ------------------------------- C9 ------------------------------------ *)
\* The structures the JSON texts of at most four characters decode to.
Decoded(chars) ==
  CASE chars = <<"1">> -> DNum(1)
    [] chars = <<"1", "1">> -> DNum(11)
    [] chars = <<"1", "1", "1">> -> DNum(111)
    [] chars = <<"1", "1", "1", "1">> -> DNum(1111)
    [] chars = <<"[", "]">> -> DArr(<<>>)
    [] chars = <<"[", "1", "]">> -> DArr(<<DNum(1)>>)
    [] chars = <<"[", "1", "1", "]">> -> DArr(<<DNum(11)>>)
    [] chars = <<"[", "[", "]", "]">> -> DArr(<<DArr(<<>>)>>)
    [] OTHER -> SyntaxError

\* the destination value of a JSON-text column value
Expected(j) == IF j.kind = "null" \/ j.chars = <<>> THEN DNull ELSE Decoded(j.chars)

\* C9: in every record sent to the destination each JSON-text column is null
\* when the source value is NULL or the empty string and the decoded structure
\* otherwise; a row is refused with a SyntaxError only when one of its
\* non-empty JSON-text columns does not decode.
C9_FieldDecoding ==
  /\ \A req \in inflight : \A c \in JsonCols(req.table) :
       /\ req.payload[c] = Expected(source[req.table][req.row][c])
       /\ req.payload[c] # SyntaxError
  /\ \A t \in TableNames : \A j \in 1..Len(dest[t]) : \A c \in JsonCols(t) :
       \E k \in 1..Len(source[t]) : dest[t][j][c] = Expected(source[t][k][c])
  /\ thrown = "SyntaxError" =>
       \E c \in JsonCols(Tables[tbl]) :
         Expected(source[Tables[tbl]][idx][c]) = SyntaxError

C9_Witness ==
  \E req \in inflight : \E c \in JsonCols(req.table) : \E d \in JsonCols(req.table) :
    /\ source[req.table][req.row][c] = JText(<<>>)
    /\ req.payload[c] = DNull
    /\ source[req.table][req.row][d] = JText(Good)
    /\ req.payload[d] = DArr(<<DNum(1)>>)

(* ------------------------------- C10 ----------------------------------- *)
\* C10: when a JSON-text column of a row cannot be decoded, every other row of
\* the same table is still written and every later table's migration still
\* runs by the end of the run.
C10_MappingFailureIsolated ==
  (pc = "closed" /\ thrown = "SyntaxError") =>
    LET t == Tables[tbl] IN
    /\ \A k \in 1..Len(source[t]) :
         k # idx /\ ~Throws(t, source[t][k]) => [table |-> t, row |-> k] \in Range(trace)
    /\ \A u \in TableNames : Pos(u) > Pos(t) => u \in Range(started)

====
